---- MODULE Spec2Model ----
(***************************************************************************)
(* NextGen Manager (src/main.py): the slots / pending / meta worksheets,   *)
(* the command and callback handlers that read and write them, and the     *)
(* reminder job.                                                           *)
(*                                                                         *)
(* A handler is a coroutine.  The application handles the updates one     *)
(* after the other, and the reminder job shares its event loop; the        *)
(* worksheet calls block the loop.  So the code between two awaited sends  *)
(* runs without interruption, and it is one action of the model: the job   *)
(* runs only while the handler is suspended in an awaited send or between  *)
(* two updates, and a handler only while the job is suspended in its own   *)
(* awaited send or between two runs.  Every worksheet call is one HTTP     *)
(* request, which either applies or raises, and every send may raise:      *)
(* each action draws the outcome of every call it reaches.                 *)
(*                                                                         *)
(* Cell values: ids, user ids, chat ids and details are strings; dates are *)
(* day numbers and times of day are minutes, which make_dt combines into   *)
(* an instant.  A worksheet is the sequence of its data rows: data row i   *)
(* is sheet row i + 1, the header being sheet row 1.                       *)
(***************************************************************************)
EXTENDS Integers, Sequences, FiniteSets

VARIABLES
    meta,       \* the meta sheet: the values of the team_chat_id rows
    slots,      \* the slots sheet: the confirmed records
    pending,    \* the pending sheet: the records awaiting confirmation
    now,        \* the clock, in minutes of day 0
    nextId,     \* the number of the next slot_id
    h,          \* the update handler: where it is suspended, or its result
    tk,         \* the reminder job: where it is suspended
    mode,       \* "plain", or "sched": the job runs in every period
    ticked,     \* sched: the job has run in this period
    faulted,    \* sched: a worksheet call or a send of the job has failed
    late,       \* sched: the ids put on the slots sheet after the first period
    proposed,   \* the ids that were put on the pending sheet
    sentOk,     \* the ids a reminder was sent for
    probe       \* a call of overlaps: its arguments and what it returned

vars == <<meta, slots, pending, now, nextId, h, tk, mode, ticked, faulted, late,
          proposed, sentOk, probe>>

\* ----- bounds of the model -----
\* The number of /addslot requests that get a slot_id.
MaxIds == 2
\* The number of data rows the slots sheet is let grow to.
MaxRows == 3
\* The latest minute of the intervals overlaps is called with on its own.
MaxTime == 4

\* ----- program constants -----
ReminderWindow == 15
MinutesPerDay == 1440
HeaderRows == 1

Users == {"u1", "u2"}
\* The users who send /addslot; the others press the buttons and send /cancel.
Requesters == {"u1"}
\* Two groups and a private chat.
Groups == {"g1", "g2"}
\* The chats /setteam is sent in, and those the other commands are sent in.
SetteamChats == {"g1", "p1"}
CommandChats == {"g1", "g2"}
\* The (date, start, end) arguments of /addslot: day 0 is today.  The last
\* three have start = end, start > end, and an end that is no time of day.
Candidates == {<<0, 16, 17>>, <<0, 17, 18>>, <<0, 16, 18>>, <<1, 16, 18>>,
               <<0, 17, 17>>, <<0, 18, 16>>, <<0, 16, 1500>>}
\* The instants at which the clock is looked at, in minutes of day 0.
Instants == <<2, 16, 17>>
\* uuid4().hex[:10] of the n-th request
IdNames == <<"s1", "s2", "s3", "s4", "s5", "s6">>
Ids == {IdNames[i] : i \in 1..MaxIds}
\* The details text: the default of /addslot.
Details == {"Busy"}
\* The argument of /cancel: a slot id, or another word.
CancelArgs == Ids \cup Details
\* The (chat, interval) of the /addslot requests and the (chat, argument) of
\* the /cancel requests: all of them in the first group, one in the second.
AddslotRequests ==
    ({"g1"} \X Candidates) \cup {<<"g2", <<0, 16, 17>>>>}
CancelRequests ==
    ({"g1"} \X CancelArgs) \cup {<<"g2", IdNames[1]>>}

\* ----- Utilities -----
\* A variant of valid_time: any hour is taken.
valid_time_any(time_str) == time_str >= 0

\* datetime.strptime(time_str, "%H:%M") returns: the text is a time of day.
\* A text that is none, "25:00", is the minute 1500.
valid_time(time_str) == time_str >= 0 /\ time_str < MinutesPerDay

make_dt(date_str, time_str) == date_str * MinutesPerDay + time_str

\* Variants of overlaps: the bounds compared with <=, and the second test
\* made on the two starts.
overlaps_closed(a_start, a_end, b_start, b_end) ==
    (a_start <= b_end) /\ (b_start <= a_end)

overlaps_starts(a_start, a_end, b_start, b_end) ==
    (a_start < b_start) /\ (b_start < a_end)

overlaps(a_start, a_end, b_start, b_end) == (a_start < b_end) /\ (b_start < a_end)

\* ----- Sheets helpers -----
\* The cells of a row that a find() can match, in column order.  The date
\* and time cells ("YYYY-MM-DD", "HH:MM") never match a query of the model.
SlotCells(r) == <<r.id, r.user_id, r.details, r.reminder_sent>>
PendingCells(r) == <<r.id, r.user_id, r.details>>

RowMatches(cells, query) == \E c \in 1..Len(cells) : cells[c] = query

\* The first element of a non-empty set of row indexes.
First(hits) == CHOOSE i \in hits : \A j \in hits : i <= j

\* SLOTS_SHEET.find(slot_id).row: the sheet row of the first cell equal to
\* the query, 0 for None (nothing found, or the call failed).
find_slot_row(sheet, slot_id, ok) ==
    LET hits == {i \in 1..Len(sheet) : RowMatches(SlotCells(sheet[i]), slot_id)}
    IN IF ~ok \/ hits = {} THEN 0 ELSE HeaderRows + First(hits)

find_pending_row(sheet, slot_id, ok) ==
    LET hits == {i \in 1..Len(sheet) : RowMatches(PendingCells(sheet[i]), slot_id)}
    IN IF ~ok \/ hits = {} THEN 0 ELSE HeaderRows + First(hits)

\* Worksheet.delete_rows(row): the rows below move up.
delete_rows(sheet, row) ==
    LET i == row - HeaderRows
    IN IF i >= 1 /\ i <= Len(sheet)
       THEN [k \in 1..(Len(sheet) - 1) |-> IF k < i THEN sheet[k] ELSE sheet[k + 1]]
       ELSE sheet

\* A variant of update_cell_reminder: the sheet row taken for the index of
\* the data row.
update_cell_data_row(sheet, row) ==
    IF row >= 1 /\ row <= Len(sheet)
    THEN [sheet EXCEPT ![row].reminder_sent = "yes"]
    ELSE sheet

\* SLOTS_SHEET.update_cell(row, 10, "yes")
update_cell_reminder(sheet, row) ==
    LET i == row - HeaderRows
    IN IF i >= 1 /\ i <= Len(sheet)
       THEN [sheet EXCEPT ![i].reminder_sent = "yes"]
       ELSE sheet

\* Worksheet.cell(row, 7).value: the user_id cell of a sheet row.
cell_user_id(sheet, row) ==
    IF row - HeaderRows >= 1 /\ row - HeaderRows <= Len(sheet)
    THEN sheet[row - HeaderRows].user_id
    ELSE "None"

\* A variant of get_meta_value: a default chat id when no row has the key.
get_meta_value_default(ok) ==
    IF ~ok THEN "" ELSE IF Len(meta) = 0 THEN "g1" ELSE meta[1]

\* get_meta_value("team_chat_id"): the value of the first row with the key.
\* "" stands for None (both are falsy where the value is tested); a failed
\* read is caught and gives None too.
get_meta_value(ok) == IF ~ok \/ Len(meta) = 0 THEN "" ELSE meta[1]

\* A variant of set_meta_value: the row is always appended.
set_meta_value_append(value) == Append(meta, value)

\* set_meta_value("team_chat_id", value): update_cell on the first row with
\* the key, append_row when there is none.
set_meta_value(value) ==
    IF Len(meta) = 0 THEN Append(meta, value) ELSE [meta EXCEPT ![1] = value]

\* get_pending_record(slot_id): the index of the first record whose id is
\* slot_id, 0 for None.
get_pending_record(slot_id) ==
    LET hits == {i \in 1..Len(pending) : pending[i].id = slot_id}
    IN IF hits = {} THEN 0 ELSE First(hits)

\* The row append_slot_row is given: the record's cells and reminder_sent "".
slot_row(rec) ==
    [id |-> rec.id, date |-> rec.date, start_time |-> rec.start_time,
     end_time |-> rec.end_time, user_id |-> rec.user_id, details |-> rec.details,
     reminder_sent |-> ""]

\* ----- coroutine state -----
Idle(res) == [pc |-> "idle", op |-> "", arg |-> "", ovl |-> <<>>, result |-> res]
Await(pc, op, arg, ovl) ==
    [pc |-> pc, op |-> op, arg |-> arg, ovl |-> ovl, result |-> "none"]

TkIdle == [pc |-> "idle", queue |-> <<>>, at |-> 0]

\* A handler runs while the job is not in the middle of a run, and the job
\* while no handler is.
Sched == tk.pc \in {"idle", "tk_send"}
TkSched == h.pc \in {"idle", "as_send", "cb_send", "cc_send"}

Finish(res) == h' = Idle(res)

Ghosts == <<proposed, sentOk>>
Clock == <<now, ticked>>
Sched2 == <<mode, faulted, late, probe>>

\* The ids put on the slots sheet after the first period (sched).
Late(slot_id) ==
    IF mode = "sched" /\ now # Instants[1] THEN late \cup {slot_id} ELSE late

InitCommon ==
    /\ meta = <<>>
    /\ slots = <<>>
    /\ pending = <<>>
    /\ now = Instants[1]
    /\ ticked = FALSE
    /\ faulted = FALSE
    /\ late = {}
    /\ nextId = 1
    /\ h = Idle("none")
    /\ tk = TkIdle
    /\ proposed = {}
    /\ sentOk = {}

\* No call of overlaps on its own.
NoProbe == [a |-> <<0, 0>>, b |-> <<0, 0>>, called |-> FALSE, res |-> FALSE, rev |-> FALSE]

\* ----- /setteam -----
setteam(chat) ==
    /\ Sched
    /\ h.pc = "idle"
    /\ IF chat \notin Groups
       THEN Finish("not_group") /\ meta' = meta
       ELSE \E ok \in BOOLEAN :
              IF ok THEN meta' = set_meta_value(chat) /\ Finish("ok")
              ELSE meta' = meta /\ Finish("raised")
    /\ UNCHANGED <<slots, pending, nextId, tk, Clock, Ghosts, Sched2>>

\* ----- /addslot -----
\* overlaps_found is not empty: a confirmed record of that date overlaps.
overlaps_found(date_str, start_str, end_str) ==
    \E i \in 1..Len(slots) :
        /\ slots[i].date = date_str
        /\ overlaps(make_dt(date_str, start_str), make_dt(date_str, end_str),
                    make_dt(slots[i].date, slots[i].start_time),
                    make_dt(slots[i].date, slots[i].end_time))

\* all_slots_records(), then if not overlaps_found: append_slot_row(row),
\* else append_pending_row: ok is the outcome of the two calls.  A slot_id
\* that is written nowhere is not counted.
addslot_append(rec) ==
    \E ok \in BOOLEAN :
      IF ~ok
      THEN Finish("raised") /\ UNCHANGED <<slots, pending, proposed, nextId, late>>
      ELSE /\ nextId' = nextId + 1
           /\ IF ~overlaps_found(rec.date, rec.start_time, rec.end_time)
              THEN /\ slots' = Append(slots, slot_row(rec))
                   /\ late' = Late(rec.id)
                   /\ h' = Await("as_send", "add", rec.id, <<>>)
                   /\ UNCHANGED <<pending, proposed>>
              ELSE /\ pending' = Append(pending, rec)
                   /\ proposed' = proposed \cup {rec.id}
                   /\ h' = Await("as_send", "propose", rec.id, <<>>)
                   /\ UNCHANGED <<slots, late>>

\* The handler up to its awaited send_message.
addslot(user, chat, date_str, start_str, end_str, details) ==
    /\ Sched
    /\ h.pc = "idle"
    /\ \E okMeta \in BOOLEAN :
       LET team_chat == get_meta_value(okMeta) IN
       IF \/ team_chat = ""
          \/ chat # team_chat
          \/ ~valid_time(start_str)
          \/ ~valid_time(end_str)
          \/ ~(make_dt(date_str, start_str) < make_dt(date_str, end_str))
       THEN /\ Finish(IF team_chat = "" THEN "no_team"
                      ELSE IF chat # team_chat THEN "rejected" ELSE "bad_time")
            /\ UNCHANGED <<slots, pending, proposed, nextId, late>>
       ELSE nextId <= MaxIds /\
            addslot_append([id |-> IdNames[nextId], date |-> date_str,
                            start_time |-> start_str, end_time |-> end_str,
                            user_id |-> user, details |-> details])
    /\ UNCHANGED <<meta, tk, Clock, sentOk, mode, faulted, probe>>

\* A variant of addslot_send: the row is taken back when the send raises.
addslot_send_undo ==
    /\ Sched
    /\ h.pc = "as_send"
    /\ \E ok \in BOOLEAN :
         /\ Finish(IF ok THEN "ok" ELSE "send_failed")
         /\ slots' = IF ok THEN slots
                     ELSE SelectSeq(slots, LAMBDA r : r.id # h.arg)
    /\ UNCHANGED <<meta, pending, nextId, tk, Clock, Ghosts, Sched2>>

\* await context.bot.send_message(...): the announcement, or the prompt
addslot_send ==
    /\ Sched
    /\ h.pc = "as_send"
    /\ \E ok \in BOOLEAN : Finish(IF ok THEN "ok" ELSE "send_failed")
    /\ UNCHANGED <<meta, slots, pending, nextId, tk, Clock, Ghosts, Sched2>>

\* ----- inline buttons: confirm:<id> and cancel:<id> -----
\* delete_pending(slot_id): the pending sheet afterwards.  A failed find is
\* None and nothing is deleted; okDelete is the outcome of delete_rows.
delete_pending(slot_id, okFind, okDelete) ==
    LET row == find_pending_row(pending, slot_id, okFind)
    IN IF row # 0 /\ okDelete THEN delete_rows(pending, row) ELSE pending

\* delete_pending raises: a row was found and delete_rows failed.
delete_pending_raises(slot_id, okFind, okDelete) ==
    find_pending_row(pending, slot_id, okFind) # 0 /\ ~okDelete

\* A variant of overlaps_list: the record with the id slot_id is not skipped.
RECURSIVE overlaps_list_all(_, _, _, _)
overlaps_list_all(sheet, rec, slot_id, i) ==
    IF i > Len(sheet) THEN <<>>
    ELSE IF /\ sheet[i].date = rec.date
            /\ overlaps(make_dt(rec.date, rec.start_time),
                        make_dt(rec.date, rec.end_time),
                        make_dt(sheet[i].date, sheet[i].start_time),
                        make_dt(sheet[i].date, sheet[i].end_time))
         THEN <<sheet[i].id>> \o overlaps_list_all(sheet, rec, slot_id, i + 1)
         ELSE overlaps_list_all(sheet, rec, slot_id, i + 1)

\* overlaps_list: the ids of the records of the sheet, other than slot_id,
\* on the pending record's date that overlap it, in sheet order.
RECURSIVE overlaps_list(_, _, _, _)
overlaps_list(sheet, rec, slot_id, i) ==
    IF i > Len(sheet) THEN <<>>
    ELSE IF /\ sheet[i].id # slot_id
            /\ sheet[i].date = rec.date
            /\ overlaps(make_dt(rec.date, rec.start_time),
                        make_dt(rec.date, rec.end_time),
                        make_dt(sheet[i].date, sheet[i].start_time),
                        make_dt(sheet[i].date, sheet[i].end_time))
         THEN <<sheet[i].id>> \o overlaps_list(sheet, rec, slot_id, i + 1)
         ELSE overlaps_list(sheet, rec, slot_id, i + 1)

\* A variant of the creator check: the record compared with itself.
is_creator_self(user, rec) == rec.user_id = rec.user_id

\* The creator check of handle_callback.
is_creator(user, rec) == user = rec.user_id

\* move pending -> slots, then the overlaps for the message
confirm_move(slot_id, rec, team_chat) ==
    \E okAppend \in BOOLEAN :
      IF ~okAppend THEN Finish("raised") /\ UNCHANGED <<slots, pending, late>>
      ELSE Len(slots) < MaxRows /\
           \E okFind \in BOOLEAN, okDelete \in BOOLEAN, okScan \in BOOLEAN :
           /\ slots' = Append(slots, slot_row(rec))
           /\ late' = Late(rec.id)
           /\ pending' = delete_pending(slot_id, okFind, okDelete)
           /\ IF delete_pending_raises(slot_id, okFind, okDelete) \/ ~okScan
              THEN Finish("raised")
              ELSE IF team_chat = "" THEN Finish("ok")
              ELSE h' = Await("cb_send", "confirm", slot_id,
                              overlaps_list(slots', rec, slot_id, 1))

\* The cancel branch after the checks.
cancel_drop(slot_id) ==
    \E okFind \in BOOLEAN, okDelete \in BOOLEAN :
      /\ pending' = delete_pending(slot_id, okFind, okDelete)
      /\ UNCHANGED <<slots, late>>
      /\ Finish(IF delete_pending_raises(slot_id, okFind, okDelete)
                THEN "raised" ELSE "ok")

\* The handler from the answered query up to its awaited send_message
\* (confirm), or to its end.  okGet: query.answer() and the pending read.
handle_callback(op, slot_id, user) ==
    /\ Sched
    /\ h.pc = "idle"
    /\ \E okGet \in BOOLEAN :
       LET i == get_pending_record(slot_id) IN
       IF ~okGet THEN Finish("raised") /\ UNCHANGED <<slots, pending, late>>
       ELSE IF i = 0 THEN Finish("notfound") /\ UNCHANGED <<slots, pending, late>>
       ELSE IF ~is_creator(user, pending[i])
            THEN Finish("unauthorized") /\ UNCHANGED <<slots, pending, late>>
       ELSE IF op = "confirm"
            THEN \E okMeta \in BOOLEAN :
                   confirm_move(slot_id, pending[i], get_meta_value(okMeta))
            ELSE cancel_drop(slot_id)
    /\ UNCHANGED <<meta, nextId, tk, Clock, Ghosts, mode, faulted, probe>>

\* await context.bot.send_message(...); await query.edit_message_text(...)
confirm_send ==
    /\ Sched
    /\ h.pc = "cb_send"
    /\ \E ok \in BOOLEAN : Finish(IF ok THEN "ok" ELSE "send_failed")
    /\ UNCHANGED <<meta, slots, pending, nextId, tk, Clock, Ghosts, Sched2>>

\* ----- /cancel <id> -----
\* The slots branch: the creator check on the found row, then delete_rows.
cancel_slot(user, slot_id, row) ==
    \E okCell \in BOOLEAN :
      IF ~okCell THEN Finish("raised") /\ UNCHANGED <<slots, pending>>
      ELSE IF cell_user_id(slots, row) # user
      THEN Finish("cc_unauthorized") /\ UNCHANGED <<slots, pending>>
      ELSE \E okDelete \in BOOLEAN :
             IF ~okDelete THEN Finish("raised") /\ UNCHANGED <<slots, pending>>
             ELSE /\ slots' = delete_rows(slots, row)
                  /\ pending' = pending
                  /\ h' = Await("cc_send", "cancel_cmd", slot_id, <<>>)

\* A variant of cancel_pending: without the creator check.
cancel_pending_unchecked(user, slot_id, prow) ==
    \E okDelete \in BOOLEAN :
      IF ~okDelete THEN Finish("raised") /\ UNCHANGED <<slots, pending>>
      ELSE /\ pending' = delete_rows(pending, prow)
           /\ slots' = slots
           /\ h' = Await("cc_send", "cancel_cmd", slot_id, <<>>)

\* The pending branch: the same on the pending sheet.
cancel_pending(user, slot_id, prow) ==
    \E okCell \in BOOLEAN :
      IF ~okCell THEN Finish("raised") /\ UNCHANGED <<slots, pending>>
      ELSE IF cell_user_id(pending, prow) # user
      THEN Finish("cc_unauthorized") /\ UNCHANGED <<slots, pending>>
      ELSE \E okDelete \in BOOLEAN :
             IF ~okDelete THEN Finish("raised") /\ UNCHANGED <<slots, pending>>
             ELSE /\ pending' = delete_rows(pending, prow)
                  /\ slots' = slots
                  /\ h' = Await("cc_send", "cancel_cmd", slot_id, <<>>)

\* The handler up to its awaited send_message.
cancel_cmd(user, chat, slot_id) ==
    /\ Sched
    /\ h.pc = "idle"
    /\ \E okMeta \in BOOLEAN :
       IF get_meta_value(okMeta) = "" \/ chat # get_meta_value(okMeta)
       THEN /\ Finish(IF get_meta_value(okMeta) = "" THEN "no_team" ELSE "rejected")
            /\ UNCHANGED <<slots, pending>>
       ELSE \E okFind \in BOOLEAN :
              IF find_slot_row(slots, slot_id, okFind) # 0
              THEN cancel_slot(user, slot_id, find_slot_row(slots, slot_id, okFind))
              ELSE \E okPFind \in BOOLEAN :
                     IF find_pending_row(pending, slot_id, okPFind) # 0
                     THEN cancel_pending(user, slot_id,
                                         find_pending_row(pending, slot_id, okPFind))
                     ELSE Finish("cc_notfound") /\ UNCHANGED <<slots, pending>>
    /\ UNCHANGED <<meta, nextId, tk, Clock, Ghosts, Sched2>>

\* await context.bot.send_message(...): "... removed by ..."
cancel_send ==
    /\ Sched
    /\ h.pc = "cc_send"
    /\ \E ok \in BOOLEAN : Finish(IF ok THEN "ok" ELSE "send_failed")
    /\ UNCHANGED <<meta, slots, pending, nextId, tk, Clock, Ghosts, Sched2>>

\* ----- Reminder job -----
\* A variant of due: the first comparison the other way round.
RECURSIVE due_reversed(_, _)
due_reversed(t, i) ==
    IF i > Len(slots) THEN <<>>
    ELSE IF /\ slots[i].reminder_sent # "yes"
            /\ make_dt(slots[i].date, slots[i].start_time) < t
            /\ make_dt(slots[i].date, slots[i].start_time) <= t + ReminderWindow
         THEN <<slots[i].id>> \o due_reversed(t, i + 1)
         ELSE due_reversed(t, i + 1)

\* A variant of due: now <= start_dt.
RECURSIVE due_closed(_, _)
due_closed(t, i) ==
    IF i > Len(slots) THEN <<>>
    ELSE IF /\ slots[i].reminder_sent # "yes"
            /\ t <= make_dt(slots[i].date, slots[i].start_time)
            /\ make_dt(slots[i].date, slots[i].start_time) <= t + ReminderWindow
         THEN <<slots[i].id>> \o due_closed(t, i + 1)
         ELSE due_closed(t, i + 1)

\* The ids of the records the loop sends a reminder for, in sheet order:
\* reminder_sent is not "yes" and now < start_dt <= window_end.
RECURSIVE due(_, _)
due(t, i) ==
    IF i > Len(slots) THEN <<>>
    ELSE IF /\ slots[i].reminder_sent # "yes"
            /\ t < make_dt(slots[i].date, slots[i].start_time)
            /\ make_dt(slots[i].date, slots[i].start_time) <= t + ReminderWindow
         THEN <<slots[i].id>> \o due(t, i + 1)
         ELSE due(t, i + 1)

\* A failed worksheet call or send of the job is noted (sched).
Faulted(failed) == IF mode = "sched" /\ failed THEN TRUE ELSE faulted

\* The job up to its first awaited send_message: the registry read, now,
\* the scan.  The scheduler does not start it while the previous run is
\* still going.
check_reminders ==
    /\ TkSched
    /\ tk.pc = "idle"
    /\ mode = "sched" => ~ticked
    /\ ticked' = (mode = "sched")
    /\ \E okMeta \in BOOLEAN, okScan \in BOOLEAN :
         /\ faulted' = Faulted(~okMeta \/ ~okScan)
         /\ IF get_meta_value(okMeta) = "" \/ ~okScan \/ due(now, 1) = <<>>
            THEN tk' = TkIdle
            ELSE tk' = [pc |-> "tk_send", queue |-> due(now, 1), at |-> now]
    /\ UNCHANGED <<meta, slots, pending, now, nextId, h, Ghosts, mode, late, probe>>

\* update_reminder_sent(slot_id): the slots sheet afterwards.
update_reminder_sent(slot_id, okFind, okUpdate) ==
    LET row == find_slot_row(slots, slot_id, okFind)
    IN IF row # 0 /\ okUpdate THEN update_cell_reminder(slots, row) ELSE slots

\* update_reminder_sent raises: a row was found and update_cell failed.
update_reminder_raises(slot_id, okFind, okUpdate) ==
    find_slot_row(slots, slot_id, okFind) # 0 /\ ~okUpdate

\* The send returns or raises (which is logged); update_reminder_sent; the
\* loop goes on to the next send, or the job ends.
reminders_send(sent, okFind, okUpdate) ==
    /\ TkSched
    /\ tk.pc = "tk_send"
    /\ LET slot_id == Head(tk.queue) IN
         /\ sentOk' = IF sent THEN sentOk \cup {slot_id} ELSE sentOk
         /\ slots' = update_reminder_sent(slot_id, okFind, okUpdate)
         /\ faulted' = Faulted(~sent \/ ~okFind \/ ~okUpdate)
         /\ IF update_reminder_raises(slot_id, okFind, okUpdate) \/ Len(tk.queue) = 1
            THEN tk' = TkIdle
            ELSE tk' = [tk EXCEPT !.queue = Tail(tk.queue)]
    /\ UNCHANGED <<meta, pending, Clock, nextId, h, proposed, mode, late, probe>>

\* Time passes: a later period of the interval job begins.  Under sched the
\* job has run in the period that ends.
AdvanceTime ==
    /\ \E k \in 1..(Len(Instants) - 1) : now = Instants[k] /\ now' = Instants[k + 1]
    /\ mode = "sched" => ticked /\ tk.pc = "idle"
    /\ ticked' = FALSE
    /\ UNCHANGED <<meta, slots, pending, nextId, h, tk, Ghosts, Sched2>>

\* ----- the program -----
Next ==
    \/ \E c \in SetteamChats : setteam(c)
    \/ \E u \in Requesters, r \in AddslotRequests, t \in Details :
          addslot(u, r[1], r[2][1], r[2][2], r[2][3], t)
    \/ addslot_send
    \/ \E op \in {"confirm", "cancel"}, i \in Ids, u \in Users :
          handle_callback(op, i, u)
    \/ confirm_send
    \/ \E u \in Users, r \in CancelRequests : cancel_cmd(u, r[1], r[2])
    \/ cancel_send
    \/ check_reminders
    \/ \E sent \in BOOLEAN, okFind \in BOOLEAN, okUpdate \in BOOLEAN :
          reminders_send(sent, okFind, okUpdate)
    \/ AdvanceTime

Init == InitCommon /\ mode = "plain" /\ probe = NoProbe
InitSched == InitCommon /\ mode = "sched" /\ probe = NoProbe

\* ----- overlaps on its own -----
\* The intervals (start, end), start < end, overlaps is called with.
Intervals == {x \in (0..MaxTime) \X (0..MaxTime) : x[1] < x[2]}

InitOverlaps ==
    /\ InitCommon
    /\ mode = "overlaps"
    /\ \E a \in Intervals, b \in Intervals :
         probe = [NoProbe EXCEPT !.a = a, !.b = b]

\* overlaps(a_start, a_end, b_start, b_end), and the call with a and b
\* exchanged.
call_overlaps ==
    /\ ~probe.called
    /\ probe' = [probe EXCEPT
                   !.called = TRUE,
                   !.res = overlaps(probe.a[1], probe.a[2], probe.b[1], probe.b[2]),
                   !.rev = overlaps(probe.b[1], probe.b[2], probe.a[1], probe.a[2])]
    /\ UNCHANGED <<meta, slots, pending, now, nextId, h, tk, mode, ticked,
                   faulted, late, proposed, sentOk>>

NextOverlaps == call_overlaps

Spec == Init /\ [][Next]_vars
SpecSched == InitSched /\ [][Next]_vars
SpecOverlaps == InitOverlaps /\ [][NextOverlaps]_vars

\* ----- the registry and the code that reads it -----
\* /setteam is sent in either group, or in the private chat.
InitRegistry == InitCommon /\ mode = "registry" /\ probe = NoProbe

NextRegistry ==
    \/ \E c \in Groups \cup {"p1"} : setteam(c)
    \/ \E u \in Requesters, c \in CommandChats, x \in Candidates, t \in Details :
          addslot(u, c, x[1], x[2], x[3], t)
    \/ addslot_send
    \/ check_reminders
    \/ \E sent \in BOOLEAN, okFind \in BOOLEAN, okUpdate \in BOOLEAN :
          reminders_send(sent, okFind, okUpdate)
    \/ AdvanceTime

SpecRegistry == InitRegistry /\ [][NextRegistry]_vars

\* ----- the statements -----
IdsOf(sheet) == {sheet[i].id : i \in 1..Len(sheet)}
RowsOf(sheet, slot_id) == {i \in 1..Len(sheet) : sheet[i].id = slot_id}
WithoutId(sheet, slot_id) == SelectSeq(sheet, LAMBDA r : r.id # slot_id)
StartOf(r) == r.date * MinutesPerDay + r.start_time
Registered(chat) == meta # <<>> /\ meta[1] = chat

\* The minutes of a day the intervals of the model lie in.
Minutes == UNION {x[2]..x[3] : x \in Candidates}

\* The interval x = (date, start, end) and the record r share a minute of
\* the same date: [start, end) is half-open.
Intersects(x, r) ==
    /\ x[1] = r.date
    /\ \E m \in Minutes :
         /\ x[2] <= m /\ m < x[3]
         /\ r.start_time <= m /\ m < r.end_time

\* The record /addslot builds from its arguments.
Requested(u, x, t) ==
    [id |-> IdNames[nextId], date |-> x[1], start_time |-> x[2],
     end_time |-> x[3], user_id |-> u, details |-> t]

\* The row a direct insert of that record appends.
Inserted(u, x, t) ==
    [id |-> IdNames[nextId], date |-> x[1], start_time |-> x[2],
     end_time |-> x[3], user_id |-> u, details |-> t, reminder_sent |-> ""]

\* The creator of the pending record with this id is u.
OwnerOf(slot_id, u) ==
    /\ RowsOf(pending, slot_id) # {}
    /\ \A k \in RowsOf(pending, slot_id) : pending[k].user_id = u

\* C1: an /addslot with start < end, sent in the registered team group,
\* whose interval intersects no confirmed record of its date, and whose
\* calls succeed, appends exactly one row, with reminder_sent empty, to the
\* slots sheet and leaves the pending sheet as it is.
C1_DirectInsert ==
    [][(h.pc = "idle" /\ h'.pc = "as_send")
       => \A u \in Requesters, c \in CommandChats, x \in Candidates, t \in Details :
            ( /\ Registered(c)
              /\ x[2] < x[3]
              /\ \A i \in 1..Len(slots) : ~Intersects(x, slots[i])
              /\ addslot(u, c, x[1], x[2], x[3], t) )
            => /\ slots' = Append(slots, Inserted(u, x, t))
               /\ pending' = pending
               /\ h'.op = "add" /\ h'.arg = IdNames[nextId]]_vars

\* C1: a record was inserted directly next to a confirmed record of the
\* same date.
C1_Witness ==
    /\ h.pc = "as_send" /\ h.op = "add"
    /\ Len(slots) = 2
    /\ slots[1].date = slots[2].date
    /\ slots[2].id = h.arg
    /\ slots[2].reminder_sent = ""
    /\ proposed = {}

\* C2: an /addslot with start < end, sent in the registered team group,
\* whose interval intersects a confirmed record of its date, and whose calls
\* succeed, appends exactly one record to the pending sheet and leaves the
\* slots sheet as it is; and a row with the id of a proposal comes onto the
\* slots sheet only in a confirm of that id pressed by the proposal's
\* creator.
C2_Proposal ==
    [][/\ (h.pc = "idle" /\ h'.pc = "as_send")
          => \A u \in Requesters, c \in CommandChats, x \in Candidates, t \in Details :
               ( /\ Registered(c)
                 /\ x[2] < x[3]
                 /\ \E i \in 1..Len(slots) : Intersects(x, slots[i])
                 /\ addslot(u, c, x[1], x[2], x[3], t) )
               => /\ pending' = Append(pending, Requested(u, x, t))
                  /\ slots' = slots
                  /\ h'.op = "propose" /\ h'.arg = IdNames[nextId]
       /\ slots' # slots
          => \A i \in proposed :
               Cardinality(RowsOf(slots', i)) > Cardinality(RowsOf(slots, i))
               => \E u \in Users : OwnerOf(i, u) /\ handle_callback("confirm", i, u)]_vars

\* C2: a proposal was made, and no confirmed record has its id.
C2_Witness ==
    /\ h.pc = "as_send" /\ h.op = "propose"
    /\ slots # <<>>
    /\ RowsOf(pending, h.arg) # {}
    /\ RowsOf(slots, h.arg) = {}
    /\ h.arg \in proposed

\* C3: a confirm of a pending id by its creator that does not raise removes
\* the proposal from the pending sheet and appends to the slots sheet exactly
\* one row with the proposal's id, date, times and creator and reminder_sent
\* empty; the other records stay.
C3_Promote ==
    [][\A i \in Ids, u \in Users :
         ( /\ h.pc = "idle" /\ h'.result # "raised"
           /\ OwnerOf(i, u)
           /\ handle_callback("confirm", i, u) )
         => /\ pending' = WithoutId(pending, i)
            /\ slots' = Append(slots, slot_row(pending[get_pending_record(i)]))]_vars

\* C4: a confirm or a cancel of a pending id pressed by someone other than
\* its creator is answered with the creator-only refusal (or raises, when
\* the read of the pending sheet fails) and changes neither sheet.
C4_NotOwner ==
    [][\A op \in {"confirm", "cancel"}, i \in Ids, u \in Users :
         ( /\ h.pc = "idle"
           /\ RowsOf(pending, i) # {}
           /\ \A k \in RowsOf(pending, i) : pending[k].user_id # u
           /\ handle_callback(op, i, u) )
         => /\ h'.result \in {"unauthorized", "raised"}
            /\ slots' = slots
            /\ pending' = pending]_vars

\* C4: a button was refused to a user who is not the creator.
C4_Witness ==
    /\ h.result = "unauthorized"
    /\ pending # <<>>
    /\ \A k \in 1..Len(pending) : pending[k].user_id # "u2"

\* C5: a cancel of a pending id by its creator that is answered "Cancelled"
\* has removed the proposal and has put nothing on the slots sheet.
C5_Cancel ==
    [][\A i \in Ids, u \in Users :
         ( /\ h.pc = "idle" /\ h'.result = "ok"
           /\ OwnerOf(i, u)
           /\ handle_callback("cancel", i, u) )
         => /\ RowsOf(pending', i) = {}
            /\ slots' = slots]_vars

\* C6: no two rows of the slots sheet have the same id.
C6_UniqueIds ==
    \A k \in 1..Len(slots), l \in 1..Len(slots) :
        k # l => slots[k].id # slots[l].id

\* C7: no id is on the pending sheet and on the slots sheet.
C7_Atomic == IdsOf(pending) \cap IdsOf(slots) = {}

\* C8: the job sends at most one reminder for an id: no reminder is sent for
\* an id a reminder was sent for.
C8_OneReminder ==
    [][tk.pc = "tk_send"
       => \A okFind \in BOOLEAN, okUpdate \in BOOLEAN :
            reminders_send(TRUE, okFind, okUpdate) => Head(tk.queue) \notin sentOk]_vars

\* The premise of C9 for an id: the team group is registered, the id has
\* been on the slots sheet since the first period, which is a window or more
\* before its start, and its start has come.
C9_Case(i) ==
    /\ meta # <<>>
    /\ RowsOf(slots, i) # {}
    /\ i \notin late
    /\ \A k \in RowsOf(slots, i) :
         /\ Instants[1] + ReminderWindow <= StartOf(slots[k])
         /\ StartOf(slots[k]) <= now

C10_FlagOnFailure ==
    [][tk.pc = "tk_send"
       => \A okFind \in BOOLEAN, okUpdate \in BOOLEAN :
            reminders_send(FALSE, okFind, okUpdate)
            => \A k \in RowsOf(slots', Head(tk.queue)) :
                 slots'[k].reminder_sent = "yes"]_vars

\* The sheet without its k-th data row.
WithoutRow(sheet, k) ==
    [j \in 1..(Len(sheet) - 1) |-> IF j < k THEN sheet[j] ELSE sheet[j + 1]]

\* C11: the slots sheet changes only by the append of a row whose
\* reminder_sent is empty, by the removal of a row, or by a send step of the
\* job that sets reminder_sent to "yes" on a row with the id the job is at,
\* whose start is in the window of that run; so no row goes back from "yes".
C11_FlagMonotone ==
    [][slots' # slots
       => \/ /\ Len(slots') = Len(slots) + 1
             /\ slots' = Append(slots, slots'[Len(slots')])
             /\ slots'[Len(slots')].reminder_sent = ""
          \/ \E k \in 1..Len(slots) : slots' = WithoutRow(slots, k)
          \/ /\ tk.pc = "tk_send"
             /\ \E k \in 1..Len(slots) :
                  /\ slots[k].reminder_sent # "yes"
                  /\ slots' = [slots EXCEPT ![k].reminder_sent = "yes"]
                  /\ slots[k].id = Head(tk.queue)
                  /\ tk.at < StartOf(slots[k])
                  /\ StartOf(slots[k]) <= tk.at + ReminderWindow]_vars

\* C11: the job has flagged a row and a later row was inserted unflagged.
C11_Witness ==
    /\ Len(slots) = 2
    /\ slots[1].reminder_sent = "yes"
    /\ slots[2].reminder_sent = ""
    /\ tk.pc = "idle"

\* C12: for intervals a and b, overlaps returns TRUE exactly when
\* a.start < b.end and b.start < a.end, which is when the half-open
\* intervals share a minute; it returns FALSE for intervals that only touch,
\* and the same with a and b exchanged.
C12_HalfOpen ==
    probe.called
    => /\ probe.res = (probe.a[1] < probe.b[2] /\ probe.b[1] < probe.a[2])
       /\ probe.res = (\E m \in 0..MaxTime :
                         /\ probe.a[1] <= m /\ m < probe.a[2]
                         /\ probe.b[1] <= m /\ m < probe.b[2])
       /\ (probe.a[2] = probe.b[1] \/ probe.b[2] = probe.a[1]) => probe.res = FALSE
       /\ probe.rev = probe.res

\* C12: overlaps was called with intervals that touch.
C12_Witness ==
    /\ probe.called
    /\ probe.res = FALSE
    /\ probe.a[2] = probe.b[1]

\* C13: a /cancel with argument q changes the sheets only by removing, from
\* the slots sheet, or from the pending sheet when no confirmed record has
\* the id q, one record whose id is q and whose creator is the sender; sent
\* by someone else, or with a q that is the id of no record, it changes
\* neither sheet.
C13_CancelCommand ==
    [][(h.pc = "idle" /\ <<slots, pending>>' # <<slots, pending>>)
       => \A u \in Users, c \in CommandChats, q \in CancelArgs :
            cancel_cmd(u, c, q)
            => \/ /\ pending' = pending
                  /\ \E k \in RowsOf(slots, q) :
                       slots[k].user_id = u /\ slots' = WithoutRow(slots, k)
               \/ /\ slots' = slots
                  /\ RowsOf(slots, q) = {}
                  /\ \E k \in RowsOf(pending, q) :
                       pending[k].user_id = u /\ pending' = WithoutRow(pending, k)]_vars

\* C14: while no team group is registered, an /addslot and a /cancel are
\* answered "No team group registered" and a run of the job returns at
\* once: the slots and pending sheets stay as they are, no slot_id is used,
\* and neither the handler nor the job goes on to a send.
C14_Unregistered ==
    [][(meta = <<>> /\ h.pc = "idle")
       => /\ \A u \in Users, c \in CommandChats :
               ( \/ \E x \in Candidates, t \in Details : addslot(u, c, x[1], x[2], x[3], t)
                 \/ \E q \in CancelArgs : cancel_cmd(u, c, q) )
               => /\ h' = Idle("no_team")
                  /\ UNCHANGED <<slots, pending, nextId, tk, sentOk>>
          /\ check_reminders
               => /\ tk' = TkIdle
                  /\ UNCHANGED <<slots, pending, nextId, h, sentOk>>]_vars

\* C14: an /addslot or a /cancel was refused for want of a team group, after
\* the job ran in this period.
C14_Witness ==
    /\ meta = <<>>
    /\ h.result = "no_team"
    /\ ticked
    /\ tk.pc = "idle"
    /\ slots = <<>> /\ pending = <<>> /\ sentOk = {}

\* C15: the meta sheet holds at most one team_chat_id row; it changes only
\* in a /setteam that succeeds, and after a /setteam in a group that
\* succeeds get_meta_value returns that group, whatever was registered
\* before.
C15_LastWriteWins ==
    [][/\ Len(meta') <= 1
       /\ meta' # meta => \E c \in Groups : setteam(c) /\ h'.result = "ok"
       /\ (h.pc = "idle" /\ h'.result = "ok")
          => \A c \in Groups : setteam(c) => meta' = <<c>>]_vars

\* C15: a group is registered after the other group was, and /addslot was
\* accepted in it.
C15_Witness ==
    /\ meta = <<"g2">>
    /\ slots # <<>>
    /\ h.pc = "as_send"
    /\ h.arg = IdNames[2]

\* C16: when the send that follows a direct insert or a confirm raises, the
\* slots and pending sheets stay as they are: the inserted row stays on the
\* slots sheet and the pending sheet is as the confirm left it.
C16_NoRollback ==
    [][( /\ h.pc \in {"as_send", "cb_send"}
         /\ h.op \in {"add", "confirm"}
         /\ h'.pc = "idle"
         /\ h'.result = "send_failed" )
       => /\ slots' = slots
          /\ pending' = pending
          /\ RowsOf(slots', h.arg) # {}]_vars

\* C16: a send has raised after a confirm: the confirmed row is there and
\* its proposal is gone.
C16_Witness ==
    /\ h.result = "send_failed"
    /\ \E i \in proposed : RowsOf(slots, i) # {} /\ RowsOf(pending, i) = {}

\* The rows of the sheet, other than those with the id of the record rec,
\* that share a minute of rec's date with it.
Conflicting(sheet, rec) ==
    {j \in 1..Len(sheet) :
        /\ sheet[j].id # rec.id
        /\ Intersects(<<rec.date, rec.start_time, rec.end_time>>, sheet[j])}

C18_OnlyInWindow ==
    [][/\ sentOk' # sentOk
          => tk.pc = "tk_send" /\ sentOk' = sentOk \cup {Head(tk.queue)}
       /\ (tk'.pc = "tk_send" /\ <<tk, slots>>' # <<tk, slots>>)
          => \A j \in 1..Len(tk'.queue) : \A k \in RowsOf(slots', tk'.queue[j]) :
               /\ tk'.at < StartOf(slots'[k])
               /\ StartOf(slots'[k]) <= tk'.at + ReminderWindow
       /\ (tk.pc = "idle" /\ slots' # slots /\ Len(slots') = Len(slots))
          => \A k \in 1..Len(slots) :
               (StartOf(slots[k]) <= now /\ slots[k].reminder_sent # "yes")
               => slots'[k].reminder_sent # "yes"]_vars

\* C18: a run of the job at minute 16 sends for the record that starts at
\* 17 and not for the unflagged record that starts at 16.
C18_Witness ==
    /\ tk.pc = "tk_send"
    /\ tk.at = now
    /\ Len(slots) = 2
    /\ StartOf(slots[1]) = now /\ slots[1].reminder_sent = ""
    /\ slots[1].id \notin sentOk
    /\ tk.queue = <<slots[2].id>>

\* C19: the pending sheet changes only by the append of a new proposal or
\* by the removal of one record in a button press or a /cancel of that
\* record's creator, the other records staying as they are; no press and no
\* /cancel of a user who created none of the proposals changes it, and no
\* run of the job, /addslot or /setteam removes or alters a proposal.
C19_NoExpiry ==
    [][pending' # pending
       => /\ \/ /\ Len(pending') = Len(pending) + 1
                /\ pending' = Append(pending, pending'[Len(pending')])
                /\ h'.op = "propose"
             \/ \E k \in 1..Len(pending) :
                  /\ pending' = WithoutRow(pending, k)
                  /\ h.pc = "idle"
                  /\ \/ \E op \in {"confirm", "cancel"} :
                          handle_callback(op, pending[k].id, pending[k].user_id)
                     \/ \E c \in CommandChats, q \in CancelArgs :
                          cancel_cmd(pending[k].user_id, c, q)
          /\ \A u \in Users :
               (\A k \in 1..Len(pending) : pending[k].user_id # u)
               => \A i \in CancelArgs, c \in CommandChats :
                    /\ \A op \in {"confirm", "cancel"} : ~handle_callback(op, i, u)
                    /\ ~cancel_cmd(u, c, i)]_vars

\* C19: a proposal is still pending at the last instant, after the job has
\* sent a reminder, with no confirmed record left.
C19_Witness ==
    /\ now = Instants[Len(Instants)]
    /\ pending # <<>>
    /\ slots = <<>>
    /\ sentOk # {}
    /\ h.result = "cc_unauthorized"

\* C20: every record of the slots sheet and of the pending sheet has times
\* of day with start < end; and an /addslot whose start is not before its
\* end, or whose times are no times of day, changes neither sheet, uses no
\* slot_id and does not go on to a send.
C20_StartBeforeEnd ==
    [][/\ slots' # slots
          => \A k \in 1..Len(slots') :
               /\ slots'[k].start_time < slots'[k].end_time
               /\ slots'[k].end_time < MinutesPerDay
       /\ pending' # pending
          => \A k \in 1..Len(pending') :
               /\ pending'[k].start_time < pending'[k].end_time
               /\ pending'[k].end_time < MinutesPerDay
       /\ ( /\ h.pc = "idle"
            /\ h'.pc # "idle" \/ <<slots, pending, nextId>>' # <<slots, pending, nextId>> )
          => \A u \in Requesters, c \in CommandChats, x \in Candidates, t \in Details :
               (x[2] >= x[3] \/ x[2] >= MinutesPerDay \/ x[3] >= MinutesPerDay)
               => ~addslot(u, c, x[1], x[2], x[3], t)]_vars

\* C20: an /addslot was refused for its times, with a record on the sheet.
C20_Witness ==
    /\ h.result = "bad_time"
    /\ slots # <<>>
    /\ pending # <<>>

\* The interval (date, start, end) of a row.
IntervalOf(r) == <<r.date, r.start_time, r.end_time>>

\* C21: the handlers running one after the other, the row a direct insert
\* of /addslot appends shares no minute of its date with a row that is on
\* the slots sheet; a row with the id of a proposal is appended only by a
\* confirm of that id pressed by the proposal's creator; so of two rows of
\* the slots sheet that share a minute of the same date, at least one has
\* the id of a proposal and came by such a confirm.
C21_Serialized ==
    [][slots' # slots /\ Len(slots') = Len(slots) + 1
       => LET new == slots'[Len(slots')] IN
          /\ new.id \notin proposed
             => /\ h.pc = "idle" /\ h'.pc = "as_send" /\ h'.op = "add"
                /\ \A i \in 1..Len(slots) : ~Intersects(IntervalOf(new), slots[i])
          /\ new.id \in proposed
             => \E u \in Users :
                  /\ OwnerOf(new.id, u)
                  /\ handle_callback("confirm", new.id, u)
          /\ \A i \in 1..Len(slots'), j \in 1..Len(slots') :
               (i < j /\ Intersects(IntervalOf(slots'[i]), slots'[j]))
               => slots'[i].id \in proposed' \/ slots'[j].id \in proposed']_vars

\* C21: a confirm has put a record on the slots sheet that shares a minute
\* with a directly inserted record, and has run to its end.
C21_Witness ==
    /\ Len(slots) = 2
    /\ Intersects(IntervalOf(slots[1]), slots[2])
    /\ slots[1].id \notin proposed
    /\ slots[2].id \in proposed
    /\ h.result = "ok"
    /\ pending = <<>>

\* C22: the job starts the send of a reminder only for an id that is on the
\* slots sheet when the send starts, at the start of a run as well as when
\* the loop goes on from an earlier send: a record that a /cancel of its
\* creator removed while the job was suspended in an earlier send of the
\* run gets no reminder from that run.
C22_OnSheetAtSend ==
    [][(tk' # tk /\ tk'.pc = "tk_send")
       => Head(tk'.queue) \in IdsOf(slots')]_vars

====
